---- MODULE Spec2Model ----
(***************************************************************************)
(* Quadratic bezier segments of lyon's geom crate                          *)
(* (src/geom/src/quadratic_bezier.rs).                                     *)
(*                                                                         *)
(* The segment type is generic over S: Scalar.  A scalar is modelled as an *)
(* exact rational <<n, d>> in lowest terms with d > 0; <<0, 0>> is the     *)
(* non-number a division by zero yields (it is unequal to and unordered    *)
(* with everything, like a NaN).  Square roots are kept exact as surds     *)
(* [c |-> rational, r |-> rational], the number c * sqrt(r).               *)
(***************************************************************************)
EXTENDS Integers, Sequences, FiniteSets, TLC

\* curve: the segment; call: the query applied to it, with its arguments and result
VARIABLES curve, call

vars == <<curve, call>>

op == call.op

arg == call.arg

res == call.res

\* a query, its arguments and its result
Call(o, a, r) == [op |-> o, arg |-> a, res |-> r]

---------------------------------------------------------------------------
(* Bounds of the model *)

\* coordinates of the enumerated segments are the integers 0..MaxCoord
MaxCoord == 2
\* curve parameters are the multiples of 1/TDen in [0, 1]
TDen == 3

---------------------------------------------------------------------------
(* Scalar arithmetic: exact rationals *)

Abs(n) == IF n < 0 THEN -n ELSE n

Sgn(n) == IF n < 0 THEN -1 ELSE IF n = 0 THEN 0 ELSE 1

RECURSIVE GCD(_, _)
GCD(a, b) == IF b = 0 THEN a ELSE GCD(b, a % b)

NaN == <<0, 0>>

IsNaN(a) == a[2] = 0

\* the rational n/d in lowest terms (d may be negative; d = 0 is the non-number)
Norm(n, d) ==
    IF d = 0 THEN NaN
    ELSE LET g == GCD(Abs(n), Abs(d))
         IN  IF d < 0 THEN <<-(n \div g), -(d \div g)>> ELSE <<n \div g, d \div g>>

Rat(n, d) == Norm(n, d)

OfInt(n) == <<n, 1>>

ZERO == OfInt(0)

ONE == OfInt(1)

TWO == OfInt(2)

Neg(a) == <<-a[1], a[2]>>

Add(a, b) ==
    IF IsNaN(a) \/ IsNaN(b) THEN NaN
    ELSE LET g == GCD(a[2], b[2])
         IN  Norm(a[1] * (b[2] \div g) + b[1] * (a[2] \div g), a[2] * (b[2] \div g))

Sub(a, b) == Add(a, Neg(b))

Mul(a, b) ==
    IF IsNaN(a) \/ IsNaN(b) THEN NaN
    ELSE LET g1 == GCD(Abs(a[1]), b[2])
             g2 == GCD(Abs(b[1]), a[2])
         IN  Norm((a[1] \div g1) * (b[1] \div g2), (a[2] \div g2) * (b[2] \div g1))

\* a / b; a zero divisor yields the non-number
Div(a, b) ==
    IF IsNaN(a) \/ IsNaN(b) \/ b[1] = 0 THEN NaN
    ELSE Mul(a, IF b[1] < 0 THEN <<-b[2], -b[1]>> ELSE <<b[2], b[1]>>)

RAbs(a) == <<Abs(a[1]), a[2]>>

\* comparison of two positive fractions n1/d1 and n2/d2 by their continued
\* fractions (no product is formed, so no intermediate value outgrows the operands)
RECURSIVE CmpPos(_, _, _, _)
CmpPos(n1, d1, n2, d2) ==
    LET q1 == n1 \div d1
        q2 == n2 \div d2
        r1 == n1 % d1
        r2 == n2 % d2
    IN  IF q1 # q2 THEN (IF q1 < q2 THEN -1 ELSE 1)
        ELSE IF r1 = 0 /\ r2 = 0 THEN 0
        ELSE IF r1 = 0 THEN -1
        ELSE IF r2 = 0 THEN 1
        ELSE -CmpPos(d1, r1, d2, r2)

\* -1, 0, 1 as a < b, a = b, a > b (both numbers)
Cmp(a, b) ==
    LET sa == Sgn(a[1])
        sb == Sgn(b[1])
    IN  IF sa # sb THEN (IF sa < sb THEN -1 ELSE 1)
        ELSE IF sa = 0 THEN 0
        ELSE IF sa > 0 THEN CmpPos(a[1], a[2], b[1], b[2])
        ELSE CmpPos(-b[1], b[2], -a[1], a[2])

Num(a, b) == ~IsNaN(a) /\ ~IsNaN(b)

Eq(a, b) == Num(a, b) /\ a = b

Lt(a, b) == Num(a, b) /\ Cmp(a, b) < 0

Le(a, b) == Num(a, b) /\ Cmp(a, b) <= 0

Gt(a, b) == Lt(b, a)

Ge(a, b) == Le(b, a)

\* S::min and S::max on numbers
RMin(a, b) == IF Lt(b, a) THEN b ELSE a

RMax(a, b) == IF Gt(b, a) THEN b ELSE a

---------------------------------------------------------------------------
(* Scalar arithmetic: square roots, kept exact *)

\* the number c * sqrt(r), r >= 0
Surd(c, r) == [c |-> c, r |-> r]

SurdOfRat(a) == Surd(a, ONE)

SurdIsNaN(s) == IsNaN(s.c) \/ IsNaN(s.r)

\* S::sqrt; the root of a negative number is the non-number
Sqrt(a) == IF IsNaN(a) \/ a[1] < 0 THEN Surd(NaN, ONE) ELSE Surd(ONE, a)

\* S::hypot
hypot(a, b) == Sqrt(Add(Mul(a, a), Mul(b, b)))

SurdScale(s, k) == Surd(Mul(s.c, k), s.r)

SurdAbs(s) == Surd(RAbs(s.c), s.r)

\* 1 / (c * sqrt(r)) = (1 / (c * r)) * sqrt(r)
SurdRecip(s) == Surd(Div(ONE, Mul(s.c, s.r)), s.r)

\* sum and difference of two multiples of the same root
SurdAdd(s, u) ==
    CASE SurdIsNaN(s) \/ SurdIsNaN(u) -> Surd(NaN, ONE)
      [] s.r = u.r -> Surd(Add(s.c, u.c), s.r)

SurdSub(s, u) == SurdAdd(s, SurdScale(u, OfInt(-1)))

SurdSgn(s) == IF s.r[1] = 0 THEN 0 ELSE Sgn(s.c[1])

\* sqrt(r) against q for positive r and q: decided by the side of 1 each lies on
\* when that differs, by r / q against q otherwise
CmpSqrt(r, q) ==
    LET c1 == Cmp(r, ONE)
        c2 == Cmp(q, ONE)
    IN  IF c1 = 0 THEN -c2
        ELSE IF c2 = 0 THEN c1
        ELSE IF c1 # c2 THEN c1
        ELSE Cmp(Div(r, q), q)

\* -1, 0, 1 as s < e, s = e, s > e for a surd s and a rational e (both numbers)
SurdCmpRat(s, e) ==
    LET ss == SurdSgn(s)
        se == Sgn(e[1])
    IN  IF ss # se THEN (IF ss < se THEN -1 ELSE 1)
        ELSE IF ss = 0 THEN 0
        ELSE IF ss > 0 THEN CmpSqrt(s.r, Div(e, s.c))
        ELSE -CmpSqrt(s.r, Div(e, s.c))

SurdLtRat(s, e) == ~SurdIsNaN(s) /\ ~IsNaN(e) /\ SurdCmpRat(s, e) < 0

SurdLeRat(s, e) == ~SurdIsNaN(s) /\ ~IsNaN(e) /\ SurdCmpRat(s, e) <= 0

SurdGtRat(s, e) == ~SurdIsNaN(s) /\ ~IsNaN(e) /\ SurdCmpRat(s, e) > 0

SurdGeRat(s, e) == ~SurdIsNaN(s) /\ ~IsNaN(e) /\ SurdCmpRat(s, e) >= 0

---------------------------------------------------------------------------
(* Points and vectors (generic_math::Point, Vector) *)

Pt(px, py) == [x |-> px, y |-> py]

PtAdd(p, q) == Pt(Add(p.x, q.x), Add(p.y, q.y))

PtSub(p, q) == Pt(Sub(p.x, q.x), Sub(p.y, q.y))

PtScale(p, k) == Pt(Mul(p.x, k), Mul(p.y, k))

PtDiv(p, k) == Pt(Div(p.x, k), Div(p.y, k))

PtEq(p, q) == Eq(p.x, q.x) /\ Eq(p.y, q.y)

\* Point::lerp: the point a fraction t of the way from p to q
lerp(p, q, t) == PtAdd(PtScale(p, Sub(ONE, t)), PtScale(q, t))

\* Vector::square_length
square_length(v) == Add(Mul(v.x, v.x), Mul(v.y, v.y))

Seg(f, c, t) == [from |-> f, ctrl |-> c, to |-> t]

SegEq(a, b) == PtEq(a.from, b.from) /\ PtEq(a.ctrl, b.ctrl) /\ PtEq(a.to, b.to)

---------------------------------------------------------------------------
(* QuadraticBezierSegment: evaluation *)

\* sample with the weights of the type's doc comment, which doubles the t^2 term
sample_doubled_end(c, t) ==
    LET t2 == Mul(t, t)
        one_t == Sub(ONE, t)
        one_t2 == Mul(one_t, one_t)
    IN  PtAdd(PtAdd(PtScale(c.from, one_t2),
                    PtScale(PtScale(PtScale(c.ctrl, TWO), one_t), t)),
              PtScale(PtScale(c.to, TWO), t2))

sample(c, t) ==
    LET t2 == Mul(t, t)
        one_t == Sub(ONE, t)
        one_t2 == Mul(one_t, one_t)
    IN  PtAdd(PtAdd(PtScale(c.from, one_t2),
                    PtScale(PtScale(PtScale(c.ctrl, TWO), one_t), t)),
              PtScale(c.to, t2))

x(c, t) ==
    LET t2 == Mul(t, t)
        one_t == Sub(ONE, t)
        one_t2 == Mul(one_t, one_t)
    IN  Add(Add(Mul(c.from.x, one_t2), Mul(Mul(Mul(c.ctrl.x, TWO), one_t), t)),
            Mul(c.to.x, t2))

y(c, t) ==
    LET t2 == Mul(t, t)
        one_t == Sub(ONE, t)
        one_t2 == Mul(one_t, one_t)
    IN  Add(Add(Mul(c.from.y, one_t2), Mul(Mul(Mul(c.ctrl.y, TWO), one_t), t)),
            Mul(c.to.y, t2))

\* derivative_coefficients with the middle coefficient of a first-degree blend
derivative_coefficients_plain_ctrl(t) ==
    <<Sub(Mul(TWO, t), TWO), Add(Mul(OfInt(-2), t), TWO), Mul(TWO, t)>>

derivative_coefficients(t) ==
    <<Sub(Mul(TWO, t), TWO), Add(Mul(OfInt(-4), t), TWO), Mul(TWO, t)>>

derivative(c, t) ==
    LET k == derivative_coefficients(t)
    IN  PtAdd(PtAdd(PtScale(c.from, k[1]), PtScale(c.ctrl, k[2])), PtScale(c.to, k[3]))

dx(c, t) ==
    LET k == derivative_coefficients(t)
    IN  Add(Add(Mul(c.from.x, k[1]), Mul(c.ctrl.x, k[2])), Mul(c.to.x, k[3]))

dy(c, t) ==
    LET k == derivative_coefficients(t)
    IN  Add(Add(Mul(c.from.y, k[1]), Mul(c.ctrl.y, k[2])), Mul(c.to.y, k[3]))

---------------------------------------------------------------------------
(* QuadraticBezierSegment: subdivision and degree elevation *)

\* preconditions of split_range (its debug assertions)
split_range_pre(t1, t2) ==
    /\ Ge(t1, ZERO)
    /\ Le(t2, ONE)
    /\ Le(t1, t2)
    /\ ~Eq(t1, ONE)

split_range(c, t1, t2) ==
    LET from == sample(c, t1)
        to == sample(c, t2)
        a == lerp(c.from, c.ctrl, t1)
        b == lerp(c.ctrl, c.to, t1)
        ctrl == lerp(a, b, Div(Sub(t2, t1), Sub(ONE, t1)))
    IN  Seg(from, ctrl, to)

\* split with the second half's control point taken on the first leg
split_same_leg(c, t) ==
    LET split_point == sample(c, t)
    IN  <<Seg(c.from, lerp(c.from, c.ctrl, t), split_point),
          Seg(split_point, lerp(c.from, c.ctrl, t), c.to)>>

split(c, t) ==
    LET split_point == sample(c, t)
    IN  <<Seg(c.from, lerp(c.from, c.ctrl, t), split_point),
          Seg(split_point, lerp(c.ctrl, c.to, t), c.to)>>

before_split(c, t) == Seg(c.from, lerp(c.from, c.ctrl, t), sample(c, t))

after_split(c, t) == Seg(sample(c, t), lerp(c.ctrl, c.to, t), c.to)

Cubic(f, c1, c2, t) == [from |-> f, ctrl1 |-> c1, ctrl2 |-> c2, to |-> t]

THREE == OfInt(3)

\* to_cubic with the second control point measured from the wrong end
to_cubic_wrong_end(c) ==
    Cubic(c.from,
          PtDiv(PtAdd(c.from, PtScale(c.ctrl, TWO)), THREE),
          PtDiv(PtAdd(c.from, PtScale(c.ctrl, TWO)), THREE),
          c.to)

to_cubic(c) ==
    Cubic(c.from,
          PtDiv(PtAdd(c.from, PtScale(c.ctrl, TWO)), THREE),
          PtDiv(PtAdd(c.to, PtScale(c.ctrl, TWO)), THREE),
          c.to)

\* CubicBezierSegment::sample: the cubic Bernstein evaluation
cubic_sample(k, t) ==
    LET t2 == Mul(t, t)
        t3 == Mul(t2, t)
        one_t == Sub(ONE, t)
        one_t2 == Mul(one_t, one_t)
        one_t3 == Mul(one_t2, one_t)
    IN  PtAdd(PtAdd(PtScale(k.from, one_t3),
                    PtScale(PtScale(PtScale(k.ctrl1, THREE), one_t2), t)),
              PtAdd(PtScale(PtScale(PtScale(k.ctrl2, THREE), one_t), t2),
                    PtScale(k.to, t3)))

---------------------------------------------------------------------------
(* QuadraticBezierSegment: extrema *)

\* Option<S>
None == <<>>

Some(t) == <<t>>

\* find_local_x_extremum accepting a root at 0
find_local_x_extremum_closed(c) ==
    LET div == Add(Sub(c.from.x, Mul(TWO, c.ctrl.x)), c.to.x)
        t == Div(Sub(c.from.x, c.ctrl.x), div)
    IN  IF Eq(div, ZERO) THEN [value |-> None, divisors |-> <<>>]
        ELSE IF Ge(t, ZERO) /\ Lt(t, ONE) THEN [value |-> Some(t), divisors |-> <<div>>]
        ELSE [value |-> None, divisors |-> <<div>>]

\* find_local_x_extremum with the divisors it divided by
find_local_x_extremum_run(c) ==
    LET div == Add(Sub(c.from.x, Mul(TWO, c.ctrl.x)), c.to.x)
        t == Div(Sub(c.from.x, c.ctrl.x), div)
    IN  IF Eq(div, ZERO) THEN [value |-> None, divisors |-> <<>>]
        ELSE IF Gt(t, ZERO) /\ Lt(t, ONE) THEN [value |-> Some(t), divisors |-> <<div>>]
        ELSE [value |-> None, divisors |-> <<div>>]

find_local_x_extremum(c) == find_local_x_extremum_run(c).value

\* find_local_y_extremum with the divisors it divided by
find_local_y_extremum_run(c) ==
    LET div == Add(Sub(c.from.y, Mul(TWO, c.ctrl.y)), c.to.y)
        t == Div(Sub(c.from.y, c.ctrl.y), div)
    IN  IF Eq(div, ZERO) THEN [value |-> None, divisors |-> <<>>]
        ELSE IF Gt(t, ZERO) /\ Lt(t, ONE) THEN [value |-> Some(t), divisors |-> <<div>>]
        ELSE [value |-> None, divisors |-> <<div>>]

find_local_y_extremum(c) == find_local_y_extremum_run(c).value

find_y_maximum(c) ==
    LET e == find_local_y_extremum(c)
    IN  IF e # None /\ Gt(sample(c, e[1]).y, c.from.y) /\ Gt(sample(c, e[1]).y, c.to.y)
        THEN e[1]
        ELSE IF Gt(c.from.y, c.to.y) THEN ZERO ELSE ONE

find_y_minimum(c) ==
    LET e == find_local_y_extremum(c)
    IN  IF e # None /\ Lt(sample(c, e[1]).y, c.from.y) /\ Lt(sample(c, e[1]).y, c.to.y)
        THEN e[1]
        ELSE IF Lt(c.from.y, c.to.y) THEN ZERO ELSE ONE

find_x_maximum(c) ==
    LET e == find_local_x_extremum(c)
    IN  IF e # None /\ Gt(sample(c, e[1]).x, c.from.x) /\ Gt(sample(c, e[1]).x, c.to.x)
        THEN e[1]
        ELSE IF Gt(c.from.x, c.to.x) THEN ZERO ELSE ONE

\* find_x_minimum resolving an end point tie to 0
find_x_minimum_tie_zero(c) ==
    LET e == find_local_x_extremum(c)
    IN  IF e # None /\ Lt(sample(c, e[1]).x, c.from.x) /\ Lt(sample(c, e[1]).x, c.to.x)
        THEN e[1]
        ELSE IF Le(c.from.x, c.to.x) THEN ZERO ELSE ONE

find_x_minimum(c) ==
    LET e == find_local_x_extremum(c)
    IN  IF e # None /\ Lt(sample(c, e[1]).x, c.from.x) /\ Lt(sample(c, e[1]).x, c.to.x)
        THEN e[1]
        ELSE IF Lt(c.from.x, c.to.x) THEN ZERO ELSE ONE

---------------------------------------------------------------------------
(* QuadraticBezierSegment: bounding rectangles *)

\* generic_math::rect(x, y, width, height)
rect(px, py, w, h) == [origin |-> Pt(px, py), size |-> [width |-> w, height |-> h]]

fast_bounding_range_x(c) ==
    <<RMin(RMin(c.from.x, c.ctrl.x), c.to.x), RMax(RMax(c.from.x, c.ctrl.x), c.to.x)>>

fast_bounding_range_y(c) ==
    <<RMin(RMin(c.from.y, c.ctrl.y), c.to.y), RMax(RMax(c.from.y, c.ctrl.y), c.to.y)>>

fast_bounding_rect(c) ==
    LET rx == fast_bounding_range_x(c)
        ry == fast_bounding_range_y(c)
    IN  rect(rx[1], ry[1], Sub(rx[2], rx[1]), Sub(ry[2], ry[1]))

bounding_range_x(c) ==
    <<sample(c, find_x_minimum(c)).x, sample(c, find_x_maximum(c)).x>>

\* bounding_range_y that looks at the end points only
bounding_range_y_end_points(c) ==
    <<RMin(c.from.y, c.to.y), RMax(c.from.y, c.to.y)>>

bounding_range_y(c) ==
    <<sample(c, find_y_minimum(c)).y, sample(c, find_y_maximum(c)).y>>

bounding_rect(c) ==
    LET rx == bounding_range_x(c)
        ry == bounding_range_y(c)
    IN  rect(rx[1], ry[1], Sub(rx[2], rx[1]), Sub(ry[2], ry[1]))

---------------------------------------------------------------------------
(* Lines (LineSegment, Line, LineEquation) *)

\* LineEquation::new: a*x + b*y + c = 0 with (a, b) scaled to unit length
LineEquation_new(a, b, c) ==
    LET div == SurdRecip(Sqrt(Add(Mul(a, a), Mul(b, b))))
    IN  [a |-> SurdScale(div, a), b |-> SurdScale(div, b), c |-> SurdScale(div, c)]

\* Line::equation of the line through point along vector
equation(point, vector) ==
    LET a == Neg(vector.y)
        b == vector.x
        c == Neg(Add(Mul(a, point.x), Mul(b, point.y)))
    IN  LineEquation_new(a, b, c)

signed_distance_to_point(l, p) ==
    SurdAdd(SurdAdd(SurdScale(l.a, p.x), SurdScale(l.b, p.y)), l.c)

distance_to_point(l, p) == SurdAbs(signed_distance_to_point(l, p))

\* LineEquation::offset
offset(l, d) == [a |-> l.a, b |-> l.b, c |-> SurdSub(l.c, d)]

\* self.baseline().to_line().equation()
baseline_equation(c) == equation(c.from, PtSub(c.to, c.from))

---------------------------------------------------------------------------
(* QuadraticBezierSegment: flatness *)

\* the epsilon of is_linear and of flattening_step: 0.000001
epsilon == Rat(1, 1000000)

\* is_linear accepting a control point at exactly the tolerance
is_linear_closed(c, tolerance) ==
    IF Lt(square_length(PtSub(c.from, c.to)), epsilon) THEN FALSE
    ELSE SurdLeRat(distance_to_point(baseline_equation(c), c.ctrl), tolerance)

is_linear(c, tolerance) ==
    IF Lt(square_length(PtSub(c.from, c.to)), epsilon) THEN FALSE
    ELSE SurdLtRat(distance_to_point(baseline_equation(c), c.ctrl), tolerance)

fat_line(c) ==
    LET l1 == baseline_equation(c)
        d == signed_distance_to_point(l1, c.ctrl)
        two == Add(ONE, ONE)
        l2 == offset(l1, SurdScale(d, Div(ONE, two)))
    IN  IF SurdGeRat(d, ZERO) THEN <<l1, l2>> ELSE <<l2, l1>>

\* A flattening step t >= 0 is kept as its square, a surd: t = sqrt(square).
Step(sq) == [square |-> sq]

StepOne == Step(SurdOfRat(ONE))

StepIsOne(t) == ~SurdIsNaN(t.square) /\ SurdCmpRat(t.square, ONE) = 0

\* t > 1, t >= 1, t <= 1
StepGtOne(t) == SurdGtRat(t.square, ONE)

StepGeOne(t) == SurdGeRat(t.square, ONE)

StepLeOne(t) == SurdLeRat(t.square, ONE)

\* 2 * sqrt(s) for a surd s, as a step: its square is 4 * s
TwoSqrt(s) ==
    IF SurdIsNaN(s) \/ SurdSgn(s) < 0 THEN Step(Surd(NaN, ONE))
    ELSE Step(SurdScale(s, OfInt(4)))

\* flattening_step without the final clamp to 1
flattening_step_unclamped(c, tolerance) ==
    LET v1 == PtSub(c.ctrl, c.from)
        v2 == PtSub(c.to, c.from)
        v1_cross_v2 == Sub(Mul(v2.x, v1.y), Mul(v2.y, v1.x))
        h == hypot(v1.x, v1.y)
        s2inv == SurdScale(h, Div(ONE, v1_cross_v2))
        t == TwoSqrt(SurdScale(SurdScale(SurdAbs(s2inv), tolerance), Div(ONE, THREE)))
    IN  IF SurdLeRat(SurdAbs(SurdScale(h, v1_cross_v2)), epsilon) THEN StepOne
        ELSE t

flattening_step(c, tolerance) ==
    LET v1 == PtSub(c.ctrl, c.from)
        v2 == PtSub(c.to, c.from)
        v1_cross_v2 == Sub(Mul(v2.x, v1.y), Mul(v2.y, v1.x))
        h == hypot(v1.x, v1.y)
        s2inv == SurdScale(h, Div(ONE, v1_cross_v2))
        t == TwoSqrt(SurdScale(SurdScale(SurdAbs(s2inv), tolerance), Div(ONE, THREE)))
    IN  IF SurdLeRat(SurdAbs(SurdScale(h, v1_cross_v2)), epsilon) THEN StepOne
        ELSE IF StepGtOne(t) THEN StepOne
        ELSE t

\* Flattened::next, first call: the step of the whole curve; a step that reaches 1
\* emits the end point and ends the iteration, a shorter one emits the point at
\* that parameter (kept as the parameter) and goes on with the rest of the curve.
flattened_first(c, tolerance) ==
    LET t == flattening_step(c, tolerance)
    IN  IF StepGeOne(t) THEN [done |-> TRUE, at |-> StepOne, point |-> Some(c.to)]
        ELSE [done |-> FALSE, at |-> t, point |-> None]

\* Vector::length
length(v) == Sqrt(square_length(v))

\* approximate_length: the sum of the lengths of the chords of the flattened
\* curve.  The sum is formed when the flattening is the single chord from -> to;
\* a sum over several chords is not the multiple of one root and is left out.
approximate_length(c, tolerance) ==
    LET first == flattened_first(c, tolerance)
    IN  IF first.done
        THEN [single_chord |-> TRUE, len |-> Some(length(PtSub(first.point[1], c.from)))]
        ELSE [single_chord |-> FALSE, len |-> None]

---------------------------------------------------------------------------
(* Rounded scalars.  The segment is used with S = f32 or f64, whose every    *)
(* operation rounds its result to the nearest number of the format.  A       *)
(* rounded scalar is <<m, e>>, the number m * 2^e, with a mantissa m of      *)
(* exactly FPrec bits, or <<0, 0>>; the exponent is not limited.             *)

\* mantissa width of the rounded scalars, in bits
FPrec == 5

FZero == <<0, 0>>

\* number of bits of n >= 0
RECURSIVE FBits(_)
FBits(n) == IF n = 0 THEN 0 ELSE 1 + FBits(n \div 2)

\* the rounded scalar nearest to s * (n + d) * 2^e, for a sign s, n >= 0 and a
\* d in [0, 1) that is not zero exactly when sticky; ties go to the even mantissa
FRound(s, n, e, sticky) ==
    IF n = 0 THEN FZero
    ELSE LET sh == FBits(n) - FPrec
         IN  IF sh <= 0 THEN <<s * n * 2^(0 - sh), e + sh>>
             ELSE LET q == n \div 2^sh
                      r == n % 2^sh
                      half == 2^(sh - 1)
                      up == r > half \/ (r = half /\ (sticky \/ q % 2 = 1))
                      q1 == IF up THEN q + 1 ELSE q
                  IN  IF q1 = 2^FPrec THEN <<s * 2^(FPrec - 1), e + sh + 1>>
                      ELSE <<s * q1, e + sh>>

\* S::constant / conversion of an integer, and of a power of two 2^k
FOfInt(n) == FRound(Sgn(n), Abs(n), 0, FALSE)

FPow2(k) == <<2^(FPrec - 1), k - (FPrec - 1)>>

FOne == FOfInt(1)

FTwo == FOfInt(2)

FNeg(a) == <<0 - a[1], a[2]>>

FAbs(a) == <<Abs(a[1]), a[2]>>

\* a + b rounded; an addend below a quarter of the other's last place is absorbed
FAdd(a, b) ==
    IF a = FZero THEN b
    ELSE IF b = FZero THEN a
    ELSE LET hi == IF a[2] >= b[2] THEN a ELSE b
             lo == IF a[2] >= b[2] THEN b ELSE a
             d == hi[2] - lo[2]
             n == hi[1] * 2^d + lo[1]
         IN  IF d > FPrec + 1 THEN hi
             ELSE FRound(Sgn(n), Abs(n), lo[2], FALSE)

FSub(a, b) == FAdd(a, FNeg(b))

FMul(a, b) == FRound(Sgn(a[1]) * Sgn(b[1]), Abs(a[1] * b[1]), a[2] + b[2], FALSE)

\* a / b rounded, for b # 0
FDiv(a, b) ==
    CASE b # FZero ->
        LET num == Abs(a[1]) * 2^(FPrec + 2)
            q == num \div Abs(b[1])
        IN  FRound(Sgn(a[1]) * Sgn(b[1]), q, a[2] - b[2] - (FPrec + 2),
                   num % Abs(b[1]) # 0)

\* the integer square root: the largest r in lo..hi with r * r <= n
RECURSIVE IsqrtIn(_, _, _)
IsqrtIn(n, lo, hi) ==
    IF lo = hi THEN lo
    ELSE LET mid == (lo + hi + 1) \div 2
         IN  IF mid * mid <= n THEN IsqrtIn(n, mid, hi) ELSE IsqrtIn(n, lo, mid - 1)

Isqrt(n) == IsqrtIn(n, 0, 2^((FBits(n) + 1) \div 2))

\* sqrt(a) rounded, for a >= 0
FSqrt(a) ==
    CASE a[1] >= 0 ->
        LET k == IF (a[2] - (FPrec + 2)) % 2 = 0 THEN FPrec + 2 ELSE FPrec + 3
            n == a[1] * 2^k
            r == Isqrt(n)
        IN  FRound(1, r, (a[2] - k) \div 2, r * r # n)

\* hypot(a, b) = sqrt(a*a + b*b), rounded once
FHypot(a, b) ==
    IF a = FZero THEN FAbs(b)
    ELSE IF b = FZero THEN FAbs(a)
    ELSE LET hi == IF a[2] >= b[2] THEN a ELSE b
             lo == IF a[2] >= b[2] THEN b ELSE a
             d == hi[2] - lo[2]
             n == 4 * ((hi[1] * 2^d) * (hi[1] * 2^d) + lo[1] * lo[1])
             r == Isqrt(n)
         IN  IF d > FPrec + 1 THEN FAbs(hi)
             ELSE FRound(1, r, lo[2] - 1, r * r # n)

\* comparisons: the sign of the difference, which rounding keeps
FLt(a, b) == FSub(a, b)[1] < 0

FLe(a, b) == FSub(a, b)[1] <= 0

FGt(a, b) == FSub(a, b)[1] > 0

FGe(a, b) == FSub(a, b)[1] >= 0

---------------------------------------------------------------------------
(* QuadraticBezierSegment: the flattening iterator, in rounded scalars *)

\* a rational scalar, a point and a segment converted to rounded scalars
FOfRat(a) == FDiv(FOfInt(a[1]), FOfInt(a[2]))

FPtOf(p) == Pt(FOfRat(p.x), FOfRat(p.y))

FSegOf(c) == Seg(FPtOf(c.from), FPtOf(c.ctrl), FPtOf(c.to))

\* Point::lerp
lerp_rounded(p, q, t) ==
    LET one_t == FSub(FOne, t)
    IN  Pt(FAdd(FMul(one_t, p.x), FMul(t, q.x)), FAdd(FMul(one_t, p.y), FMul(t, q.y)))

\* sample: from * one_t2 + ctrl * 2 * one_t * t + to * t2, each operation rounded
sample_rounded(c, t) ==
    LET t2 == FMul(t, t)
        one_t == FSub(FOne, t)
        one_t2 == FMul(one_t, one_t)
        term(f, k, e) == FAdd(FAdd(FMul(f, one_t2), FMul(FMul(FMul(k, FTwo), one_t), t)),
                              FMul(e, t2))
    IN  Pt(term(c.from.x, c.ctrl.x, c.to.x), term(c.from.y, c.ctrl.y, c.to.y))

after_split_rounded(c, t) == Seg(sample_rounded(c, t), lerp_rounded(c.ctrl, c.to, t), c.to)

\* the constant 0.000001 as a rounded scalar
epsilon_rounded == FDiv(FOne, FOfInt(1000000))

flattening_step_rounded(c, tolerance) ==
    LET v1 == Pt(FSub(c.ctrl.x, c.from.x), FSub(c.ctrl.y, c.from.y))
        v2 == Pt(FSub(c.to.x, c.from.x), FSub(c.to.y, c.from.y))
        v1_cross_v2 == FSub(FMul(v2.x, v1.y), FMul(v2.y, v1.x))
        h == FHypot(v1.x, v1.y)
    IN  IF FLe(FAbs(FMul(v1_cross_v2, h)), epsilon_rounded) THEN FOne
        ELSE LET s2inv == FDiv(h, v1_cross_v2)
                 t == FMul(FTwo, FSqrt(FDiv(FMul(tolerance, FAbs(s2inv)), FOfInt(3))))
             IN  IF FGt(t, FOne) THEN FOne ELSE t

\* Flattened::new
Flattened_new(c, tolerance) == [curve |-> c, tolerance |-> tolerance, done |-> FALSE]

\* Flattened::next: the iterator after the request, and the point it yields
Flattened_next(it) ==
    LET t == flattening_step_rounded(it.curve, it.tolerance)
        rest == after_split_rounded(it.curve, t)
    IN  IF it.done THEN [it |-> it, point |-> None]
        ELSE IF FGe(t, FOne)
             THEN [it |-> [it EXCEPT !.done = TRUE], point |-> Some(it.curve.to)]
             ELSE [it |-> [it EXCEPT !.curve = rest], point |-> Some(rest.from)]

---------------------------------------------------------------------------
(* Inputs *)

Coords == {OfInt(n) : n \in 0..MaxCoord}

GridPoints == {Pt(a, b) : a \in Coords, b \in Coords}

GridCurves == {Seg(f, c, t) : f \in GridPoints, c \in GridPoints, t \in GridPoints}

\* the segments of the source's tests that are not grid segments
TestCurves ==
    { Seg(Pt(OfInt(1), OfInt(2)), Pt(OfInt(1), OfInt(3)), Pt(OfInt(11), OfInt(12))),
      Seg(Pt(OfInt(1), OfInt(1)), Pt(OfInt(5), OfInt(5)), Pt(OfInt(10), OfInt(2))),
      Seg(Pt(OfInt(0), OfInt(0)), Pt(OfInt(1), OfInt(-1)), Pt(OfInt(2), OfInt(0))) }

Curves == GridCurves \cup TestCurves

\* nearly degenerate segments: end points a distance 1/2000 or 1/500 apart, the
\* control point on the chord's line or 1/2000 off it
tiny == Rat(1, 2000)

NearCurves ==
    { Seg(Pt(ZERO, ZERO), c, t) :
        c \in { Pt(OfInt(5), tiny), Pt(OfInt(5), ZERO), Pt(ONE, ZERO), Pt(ONE, tiny),
                Pt(tiny, tiny), Pt(ZERO, ZERO) },
        t \in { Pt(tiny, ZERO), Pt(Rat(1, 500), ZERO) } }

\* tolerances, on the scale of the segment they are used with
Tolerances(c) ==
    IF c \in NearCurves THEN {Rat(1, 100000000), Rat(1, 100), ONE}
    ELSE {ZERO, Rat(1, 100), Rat(1, 2), ONE, TWO}

\* tolerances of the flattening iterator, as rounded scalars: 1, 1/4, 1/16 and 2^-40
FTolerances == {FPow2(0), FPow2(-2), FPow2(-4), FPow2(-40)}

\* curve parameters in [0, 1]
Params == {Rat(k, TDen) : k \in 0..TDen} \cup {Rat(1, 2)}

---------------------------------------------------------------------------
(* The state machine: a segment is constructed, then one query is applied *)

Init ==
    /\ curve \in Curves
    /\ call = Call("new", <<>>, <<>>)

Sample ==
    /\ op = "new"
    /\ \E t \in Params :
        /\ call' = Call("sample", <<t>>, sample(curve, t))
    /\ UNCHANGED curve

XAt ==
    /\ op = "new"
    /\ \E t \in Params :
        /\ call' = Call("x", <<t>>, x(curve, t))
    /\ UNCHANGED curve

YAt ==
    /\ op = "new"
    /\ \E t \in Params :
        /\ call' = Call("y", <<t>>, y(curve, t))
    /\ UNCHANGED curve

Split ==
    /\ op = "new"
    /\ \E t \in Params :
        /\ call' = Call("split", <<t>>, split(curve, t))
    /\ UNCHANGED curve

BeforeSplit ==
    /\ op = "new"
    /\ \E t \in Params :
        /\ call' = Call("before_split", <<t>>, before_split(curve, t))
    /\ UNCHANGED curve

AfterSplit ==
    /\ op = "new"
    /\ \E t \in Params :
        /\ call' = Call("after_split", <<t>>, after_split(curve, t))
    /\ UNCHANGED curve

SplitRange ==
    /\ op = "new"
    /\ \E t1 \in Params, t2 \in Params :
        /\ split_range_pre(t1, t2)
        /\ call' = Call("split_range", <<t1, t2>>, split_range(curve, t1, t2))
    /\ UNCHANGED curve

ToCubic ==
    /\ op = "new"
    /\ call' = Call("to_cubic", <<>>, to_cubic(curve))
    /\ UNCHANGED curve

FindLocalXExtremum ==
    /\ op = "new"
    /\ call' = Call("find_local_x_extremum", <<>>, find_local_x_extremum_run(curve))
    /\ UNCHANGED curve

FindLocalYExtremum ==
    /\ op = "new"
    /\ call' = Call("find_local_y_extremum", <<>>, find_local_y_extremum_run(curve))
    /\ UNCHANGED curve

FindXMaximum ==
    /\ op = "new"
    /\ call' = Call("find_x_maximum", <<>>, find_x_maximum(curve))
    /\ UNCHANGED curve

FindXMinimum ==
    /\ op = "new"
    /\ call' = Call("find_x_minimum", <<>>, find_x_minimum(curve))
    /\ UNCHANGED curve

FindYMaximum ==
    /\ op = "new"
    /\ call' = Call("find_y_maximum", <<>>, find_y_maximum(curve))
    /\ UNCHANGED curve

FindYMinimum ==
    /\ op = "new"
    /\ call' = Call("find_y_minimum", <<>>, find_y_minimum(curve))
    /\ UNCHANGED curve

BoundingRect ==
    /\ op = "new"
    /\ call' = Call("bounding_rect", <<>>, bounding_rect(curve))
    /\ UNCHANGED curve

FastBoundingRect ==
    /\ op = "new"
    /\ call' = Call("fast_bounding_rect", <<>>, fast_bounding_rect(curve))
    /\ UNCHANGED curve

FatLine ==
    /\ op = "new"
    /\ call' = Call("fat_line", <<>>, fat_line(curve))
    /\ UNCHANGED curve

IsLinear ==
    /\ op = "new"
    /\ \E tolerance \in Tolerances(curve) :
        /\ call' = Call("is_linear", <<tolerance>>, is_linear(curve, tolerance))
    /\ UNCHANGED curve

FlatteningStep ==
    /\ op = "new"
    /\ \E tolerance \in Tolerances(curve) :
        /\ call' = Call("flattening_step", <<tolerance>>, flattening_step(curve, tolerance))
    /\ UNCHANGED curve

ApproximateLength ==
    /\ op = "new"
    /\ \E tolerance \in Tolerances(curve) :
        /\ call' = Call("approximate_length", <<tolerance>>, approximate_length(curve, tolerance))
    /\ UNCHANGED curve

Next ==
    \/ Sample
    \/ XAt
    \/ YAt
    \/ Split
    \/ BeforeSplit
    \/ AfterSplit
    \/ SplitRange
    \/ ToCubic
    \/ FindLocalXExtremum
    \/ FindLocalYExtremum
    \/ FindXMaximum
    \/ FindXMinimum
    \/ FindYMaximum
    \/ FindYMinimum
    \/ BoundingRect
    \/ FastBoundingRect
    \/ FatLine

Spec == Init /\ [][Next]_vars

\* The queries that take a tolerance, on the segments above and on nearly
\* degenerate ones.
InitTolerance ==
    /\ curve \in Curves \cup NearCurves
    /\ call = Call("new", <<>>, <<>>)

NextTolerance ==
    \/ IsLinear
    \/ FlatteningStep
    \/ ApproximateLength

SpecTolerance == InitTolerance /\ [][NextTolerance]_vars

\* The flattening iterator: flattened(tolerance) constructs it, and the consumer
\* (a for loop, flattened_for_each, approximate_length) requests point after
\* point.  res.before is the iterator as the request found it, res.it the
\* iterator as the request left it, res.point the point the request yielded.
Flattened ==
    /\ op = "new"
    /\ \E tolerance \in FTolerances :
        LET it == Flattened_new(FSegOf(curve), tolerance)
        IN  call' = Call("flattened", <<tolerance>>, [before |-> it, it |-> it, point |-> None])
    /\ UNCHANGED curve

FlattenedNext ==
    /\ op \in {"flattened", "next"}
    /\ LET r == Flattened_next(res.it)
       IN  call' = Call("next", arg, [before |-> res.it, it |-> r.it, point |-> r.point])
    /\ UNCHANGED curve

NextFlattened ==
    \/ Flattened
    \/ FlattenedNext

SpecFlattened == Init /\ [][NextFlattened]_vars

---------------------------------------------------------------------------
(* Claims *)

C2_SplitReproducesCurve ==
    /\ op = "split" =>
         LET t == arg[1]
             A == res[1]
             B == res[2]
         IN  /\ PtEq(A.from, curve.from)
             /\ PtEq(B.to, curve.to)
             /\ PtEq(sample(A, ONE), sample(curve, t))
             /\ PtEq(sample(B, ZERO), sample(curve, t))
             /\ \A s \in Params :
                  /\ PtEq(sample(A, s), sample(curve, Mul(s, t)))
                  /\ PtEq(sample(B, s), sample(curve, Add(t, Mul(s, Sub(ONE, t)))))
             /\ SegEq(before_split(curve, t), A)
             /\ SegEq(after_split(curve, t), B)
    /\ op = "before_split" => SegEq(res, split(curve, arg[1])[1])
    /\ op = "after_split" => SegEq(res, split(curve, arg[1])[2])

\* a curved segment split strictly inside (0, 1)
C2_Witness ==
    /\ op = "split"
    /\ arg[1] = Rat(1, 2)
    /\ curve = Seg(Pt(ZERO, ZERO), Pt(ONE, TWO), Pt(TWO, ZERO))
    /\ res[1].to = Pt(ONE, ONE)
    /\ res[2].ctrl = Pt(Rat(3, 2), ONE)

\* C3: for 0 <= t1 <= t2 <= 1, t1 # 1, split_range(t1..t2) is the sub-curve over
\* [t1, t2]: it starts at sample(t1), ends at sample(t2), is the segment got by
\* before_split at t2 then after_split at t1/t2 (where that quotient exists),
\* and its sample(s) is sample(t1 + s*(t2-t1)) for every s.
C3_SplitRangeIsSubCurve ==
    op = "split_range" =>
        LET t1 == arg[1]
            t2 == arg[2]
        IN  /\ PtEq(res.from, sample(curve, t1))
            /\ PtEq(res.to, sample(curve, t2))
            /\ ~Eq(t2, ZERO) =>
                 SegEq(res, after_split(before_split(curve, t2), Div(t1, t2)))
            /\ \A s \in Params :
                 PtEq(sample(res, s), sample(curve, Add(t1, Mul(s, Sub(t2, t1)))))

\* C4: to_cubic keeps from and to, sets ctrl1 = from + 2/3*(ctrl - from) and
\* ctrl2 = to + 2/3*(ctrl - to), and the cubic Bernstein evaluation of the
\* result equals sample(t) of the quadratic for every t.
C4_ElevationExact ==
    op = "to_cubic" =>
        /\ PtEq(res.from, curve.from)
        /\ PtEq(res.to, curve.to)
        /\ PtEq(res.ctrl1,
                PtAdd(curve.from, PtScale(PtSub(curve.ctrl, curve.from), Rat(2, 3))))
        /\ PtEq(res.ctrl2,
                PtAdd(curve.to, PtScale(PtSub(curve.ctrl, curve.to), Rat(2, 3))))
        /\ \A t \in Params : PtEq(cubic_sample(res, t), sample(curve, t))

\* a curved segment whose elevated control points are not grid points
C4_Witness ==
    /\ op = "to_cubic"
    /\ curve = Seg(Pt(ZERO, ZERO), Pt(ONE, TWO), Pt(TWO, ZERO))
    /\ res.ctrl1 = Pt(Rat(2, 3), Rat(4, 3))
    /\ res.ctrl2 = Pt(Rat(4, 3), Rat(4, 3))

\* closed containment of a point in a rectangle given by origin and size
RectContains(r, p) ==
    /\ Le(r.origin.x, p.x)
    /\ Le(p.x, Add(r.origin.x, r.size.width))
    /\ Le(r.origin.y, p.y)
    /\ Le(p.y, Add(r.origin.y, r.size.height))

RectInside(r, outer) ==
    /\ Ge(r.size.width, ZERO)
    /\ Ge(r.size.height, ZERO)
    /\ RectContains(outer, r.origin)
    /\ RectContains(outer, PtAdd(r.origin, Pt(r.size.width, r.size.height)))

\* parameters at which containment of the curve is probed: a finer grid than
\* Params, and the curve's own interior extrema
ProbeParams(c) ==
    {Rat(k, 4 * TDen) : k \in 0..(4 * TDen)}
        \cup {find_local_x_extremum(c)[i] : i \in DOMAIN find_local_x_extremum(c)}
        \cup {find_local_y_extremum(c)[i] : i \in DOMAIN find_local_y_extremum(c)}

\* C5: bounding_rect() is contained in fast_bounding_rect(), both contain
\* sample(t) for every t in [0, 1], and when the curve has no interior x or y
\* extremum bounding_rect() is exactly the box spanned by from and to.
C5_BoundingRects ==
    /\ op = "bounding_rect" =>
         /\ RectInside(res, fast_bounding_rect(curve))
         /\ \A t \in ProbeParams(curve) : RectContains(res, sample(curve, t))
         /\ (find_local_x_extremum(curve) = None /\ find_local_y_extremum(curve) = None) =>
              res = rect(RMin(curve.from.x, curve.to.x), RMin(curve.from.y, curve.to.y),
                         RAbs(Sub(curve.to.x, curve.from.x)),
                         RAbs(Sub(curve.to.y, curve.from.y)))
    /\ op = "fast_bounding_rect" =>
         /\ RectInside(bounding_rect(curve), res)
         /\ \A t \in ProbeParams(curve) : RectContains(res, sample(curve, t))

\* the tight rectangle of the arch of the source's test is strictly inside the fast one
C5_Witness ==
    /\ op = "bounding_rect"
    /\ curve = Seg(Pt(ZERO, ZERO), Pt(ONE, ONE), Pt(TWO, ZERO))
    /\ res = rect(ZERO, ZERO, TWO, Rat(1, 2))
    /\ fast_bounding_rect(curve) = rect(ZERO, ZERO, TWO, ONE)

\* what C6 says a maximum (minimum) finder returns for the coordinates f, t of
\* from and to, the local extremum e and the coordinate v sampled there; tie is
\* the parameter an end point tie resolves to
ExtremumChoice(f, t, e, v, isMax, tie) ==
    IF e # None /\ (IF isMax THEN Gt(v, f) /\ Gt(v, t) ELSE Lt(v, f) /\ Lt(v, t))
    THEN e[1]
    ELSE IF Eq(f, t) THEN tie
    ELSE IF (IF isMax THEN Gt(f, t) ELSE Lt(f, t)) THEN ZERO ELSE ONE

SampledX(c, e) == IF e = None THEN ZERO ELSE x(c, e[1])

SampledY(c, e) == IF e = None THEN ZERO ELSE y(c, e[1])

\* C6 as stated: the maximum finders return the interior extremum when the
\* coordinate there is strictly greater than at both end points, else the end
\* point with the larger coordinate, a tie going to t = 1; the minimum finders
\* do the same with strictly less / smaller, a tie going to t = 0.
C6_TieToZeroForMinimum ==
    LET ex == find_local_x_extremum(curve)
        ey == find_local_y_extremum(curve)
    IN  /\ op = "find_x_maximum" =>
             res = ExtremumChoice(curve.from.x, curve.to.x, ex, SampledX(curve, ex), TRUE, ONE)
        /\ op = "find_y_maximum" =>
             res = ExtremumChoice(curve.from.y, curve.to.y, ey, SampledY(curve, ey), TRUE, ONE)
        /\ op = "find_x_minimum" =>
             res = ExtremumChoice(curve.from.x, curve.to.x, ex, SampledX(curve, ex), FALSE, ZERO)
        /\ op = "find_y_minimum" =>
             res = ExtremumChoice(curve.from.y, curve.to.y, ey, SampledY(curve, ey), FALSE, ZERO)

\* C6 amended: as above, but an end point tie goes to t = 1 for the minimum
\* finders too.
C6_TieToOne ==
    LET ex == find_local_x_extremum(curve)
        ey == find_local_y_extremum(curve)
    IN  /\ op = "find_x_maximum" =>
             res = ExtremumChoice(curve.from.x, curve.to.x, ex, SampledX(curve, ex), TRUE, ONE)
        /\ op = "find_y_maximum" =>
             res = ExtremumChoice(curve.from.y, curve.to.y, ey, SampledY(curve, ey), TRUE, ONE)
        /\ op = "find_x_minimum" =>
             res = ExtremumChoice(curve.from.x, curve.to.x, ex, SampledX(curve, ex), FALSE, ONE)
        /\ op = "find_y_minimum" =>
             res = ExtremumChoice(curve.from.y, curve.to.y, ey, SampledY(curve, ey), FALSE, ONE)

\* a minimum finder on a segment whose end points tie in x and whose interior
\* extremum is a maximum: the tie decides, and the answer is 1
C6_Witness ==
    /\ op = "find_x_minimum"
    /\ curve = Seg(Pt(ONE, ZERO), Pt(TWO, ONE), Pt(ONE, TWO))
    /\ find_local_x_extremum(curve) = Some(Rat(1, 2))
    /\ res = ONE

\* what C7 says the local extremum of the coordinates f, c, t is
LocalExtremumRoot(f, c, t) ==
    LET div == Add(Sub(f, Add(c, c)), t)
    IN  IF div = ZERO THEN None
        ELSE LET root == Div(Sub(f, c), div)
             IN  IF Le(root, ZERO) \/ Ge(root, ONE) THEN None ELSE Some(root)

\* C7: find_local_x_extremum / find_local_y_extremum never divide by zero; when
\* from.c - 2*ctrl.c + to.c = 0 the result is None, otherwise it is Some(t) with
\* t = (from.c - ctrl.c) / (from.c - 2*ctrl.c + to.c) exactly when 0 < t < 1 and
\* None when that root is <= 0 or >= 1.
C7_LocalExtremum ==
    /\ op = "find_local_x_extremum" =>
         /\ \A i \in DOMAIN res.divisors : ~Eq(res.divisors[i], ZERO) /\ ~IsNaN(res.divisors[i])
         /\ res.value = LocalExtremumRoot(curve.from.x, curve.ctrl.x, curve.to.x)
    /\ op = "find_local_y_extremum" =>
         /\ \A i \in DOMAIN res.divisors : ~Eq(res.divisors[i], ZERO) /\ ~IsNaN(res.divisors[i])
         /\ res.value = LocalExtremumRoot(curve.from.y, curve.ctrl.y, curve.to.y)

\* a root at the boundary (ctrl.x = from.x puts it at 0) is not reported, though
\* the division was made
C7_Witness ==
    /\ op = "find_local_x_extremum"
    /\ curve.from.x = curve.ctrl.x
    /\ curve.to.x # curve.from.x
    /\ res.divisors # <<>>
    /\ res.value = None

\* an interior root is reported
C7_WitnessInterior ==
    /\ op = "find_local_y_extremum"
    /\ curve = Seg(Pt(ZERO, ZERO), Pt(ONE, TWO), Pt(TWO, ONE))
    /\ res.value = Some(Rat(2, 3))

\* cross product of to - from and ctrl - from: zero when ctrl is on the line
\* through from and to
ChordCross(c) ==
    LET u == PtSub(c.to, c.from)
        w == PtSub(c.ctrl, c.from)
    IN  Sub(Mul(u.x, w.y), Mul(u.y, w.x))

\* perpendicular distance from ctrl to the line through from and to (from # to):
\* |cross| / |to - from|
PerpendicularDistance(c) ==
    LET d2 == square_length(PtSub(c.to, c.from))
    IN  Surd(Div(RAbs(ChordCross(c)), d2), d2)

\* from and to coincide: their squared distance is below epsilon
EndPointsCoincide(c) == Lt(square_length(PtSub(c.to, c.from)), epsilon)

\* C8: is_linear(tolerance) is false whenever from and to coincide (squared
\* distance below 1e-6), in particular when all three points are equal; otherwise
\* it is true exactly when the perpendicular distance from ctrl to the line
\* through from and to is below tolerance, hence true for any positive tolerance
\* when ctrl is anywhere on the line through the two (non-coinciding) end points.
C8_IsLinear ==
    op = "is_linear" =>
        /\ EndPointsCoincide(curve) => res = FALSE
        /\ (curve.from = curve.ctrl /\ curve.ctrl = curve.to) => res = FALSE
        /\ ~EndPointsCoincide(curve) =>
             (res <=> SurdLtRat(PerpendicularDistance(curve), arg[1]))
        /\ (~EndPointsCoincide(curve) /\ ChordCross(curve) = ZERO /\ Gt(arg[1], ZERO)) =>
             res = TRUE

\* a control point on the line, beyond the end point, with a small tolerance
C8_Witness ==
    /\ op = "is_linear"
    /\ curve = Seg(Pt(ZERO, ZERO), Pt(TWO, TWO), Pt(ONE, ONE))
    /\ arg[1] = Rat(1, 100)
    /\ res = TRUE

\* end points 1/2000 apart coincide: is_linear is false though ctrl is on their line
C8_WitnessCoincide ==
    /\ op = "is_linear"
    /\ curve = Seg(Pt(ZERO, ZERO), Pt(ONE, ZERO), Pt(tiny, ZERO))
    /\ res = FALSE

\* C9 as stated: fat_line() returns two lines such that from, ctrl and to each
\* have signed distance <= 0 to the first and >= 0 to the second (stated for
\* segments with from # to, which have a baseline).
C9_FatLineBounds ==
    (op = "fat_line" /\ ~PtEq(curve.from, curve.to)) =>
        \A p \in {curve.from, curve.ctrl, curve.to} :
            /\ SurdLeRat(signed_distance_to_point(res[1], p), ZERO)
            /\ SurdGeRat(signed_distance_to_point(res[2], p), ZERO)

\* |(v1 x v2) * h| <= epsilon for v1 = ctrl - from, v2 = to - from, h = |v1|
FlatDegenerate(c) ==
    LET v1 == PtSub(c.ctrl, c.from)
    IN  SurdLeRat(Surd(RAbs(ChordCross(c)), square_length(v1)), epsilon)

\* the square of 2*sqrt(tolerance*|h/(v1 x v2)|/3): 4*tolerance*h / (3*|v1 x v2|)
UnclampedStepSquare(c, tolerance) ==
    Surd(Div(Mul(OfInt(4), tolerance), Mul(THREE, RAbs(ChordCross(c)))),
         square_length(PtSub(c.ctrl, c.from)))

\* C10 as stated: flattening_step(tolerance) is exactly 1 whenever the cross
\* product v1 x v2 is below epsilon in magnitude, and at most 1 for every
\* tolerance >= 0.
C10_OneWhenCrossSmall ==
    op = "flattening_step" =>
        /\ Lt(RAbs(ChordCross(curve)), epsilon) => StepIsOne(res)
        /\ Ge(arg[1], ZERO) => StepLeOne(res)

\* C10 amended: flattening_step(tolerance) is exactly 1 whenever
\* |(v1 x v2) * h| <= epsilon, h = |v1| (so whenever the three points are
\* collinear); for every tolerance >= 0 it is at most 1, and otherwise it is
\* min(1, 2*sqrt(tolerance*|h/(v1 x v2)|/3)); a segment of three collinear points
\* flattens to the single chord from -> to and approximate_length is the
\* distance between from and to.
C10_OneWhenDegenerate ==
    /\ op = "flattening_step" =>
         /\ FlatDegenerate(curve) => StepIsOne(res)
         /\ ChordCross(curve) = ZERO => StepIsOne(res)
         /\ Ge(arg[1], ZERO) => StepLeOne(res)
         /\ (~FlatDegenerate(curve) /\ Ge(arg[1], ZERO)) =>
              IF SurdGtRat(UnclampedStepSquare(curve, arg[1]), ONE)
              THEN StepIsOne(res)
              ELSE res = Step(UnclampedStepSquare(curve, arg[1]))
    /\ (op = "approximate_length" /\ ChordCross(curve) = ZERO) =>
         /\ res.single_chord
         /\ flattened_first(curve, arg[1]).point = Some(curve.to)
         /\ res.len = Some(hypot(Sub(curve.to.x, curve.from.x), Sub(curve.to.y, curve.from.y)))

\* the degenerate branch taken with a non-zero cross product
C10_Witness ==
    /\ op = "flattening_step"
    /\ curve = Seg(Pt(ZERO, ZERO), Pt(tiny, tiny), Pt(tiny, ZERO))
    /\ ChordCross(curve) # ZERO
    /\ FlatDegenerate(curve)
    /\ res = StepOne

\* the straight line of the source's test has length 2
C10_WitnessLength ==
    /\ op = "approximate_length"
    /\ curve = Seg(Pt(ZERO, ZERO), Pt(ONE, ZERO), Pt(TWO, ZERO))
    /\ arg[1] = Rat(1, 100)
    /\ SurdCmpRat(res.len[1], TWO) = 0

\* C11: from any segment and any tolerance > 0 the flattening iteration reaches
\* a step equal to 1, where the last point emitted is the segment's to and every
\* later request yields no point.  Stated request by request: a request on a
\* running iterator either ends the iteration with the segment's to, or advances
\* the remaining sub-curve and yields its new start; a request on an ended
\* iterator yields no point.  (Flattened::next is a function of the iterator: a
\* request that leaves a running iterator as it found it is repeated for ever.)
C11_FlatteningAdvances ==
    op = "next" =>
        /\ res.before.done => (res.point = None /\ res.it = res.before)
        /\ (~res.before.done /\ res.it.done) => res.point = Some(FPtOf(curve.to))
        /\ (~res.before.done /\ ~res.it.done) =>
             /\ res.it # res.before
             /\ res.point = Some(res.it.curve.from)

\* the values v (in the order of their parameters) never decrease, or never increase
MonotonicValues(T, v(_)) ==
    \/ \A s \in T, t \in T : Lt(s, t) => Le(v(s), v(t))
    \/ \A s \in T, t \in T : Lt(s, t) => Ge(v(s), v(t))

\* parameters at which a coordinate with the values f, k, t at from, ctrl, to is
\* probed for monotonicity: a grid of [0, 1] and the vertex of its parabola
\* when that is inside (0, 1)
MonotonicProbes(f, k, t) ==
    LET root == LocalExtremumRoot(f, k, t)
    IN  {Rat(i, 4 * TDen) : i \in 0..(4 * TDen)} \cup {root[i] : i \in DOMAIN root}

\* the x (y) coordinate of the curve is monotonic over [0, 1]
MonotonicX(c) ==
    LET v(t) == x(c, t)
    IN  MonotonicValues(MonotonicProbes(c.from.x, c.ctrl.x, c.to.x), v)

MonotonicY(c) ==
    LET v(t) == y(c, t)
    IN  MonotonicValues(MonotonicProbes(c.from.y, c.ctrl.y, c.to.y), v)

\* C12: find_local_x_extremum (find_local_y_extremum) returns None exactly when
\* the x (y) coordinate of the curve is monotonic over [0, 1]; when it returns
\* Some(t), dx(t) (dy(t)) is zero and both pieces of split(t) are monotonic in
\* that coordinate.
C12_NoneIffMonotonic ==
    /\ op = "find_local_x_extremum" =>
         /\ (res.value = None) <=> MonotonicX(curve)
         /\ res.value # None =>
              /\ Eq(dx(curve, res.value[1]), ZERO)
              /\ Eq(derivative(curve, res.value[1]).x, ZERO)
              /\ MonotonicX(split(curve, res.value[1])[1])
              /\ MonotonicX(split(curve, res.value[1])[2])
    /\ op = "find_local_y_extremum" =>
         /\ (res.value = None) <=> MonotonicY(curve)
         /\ res.value # None =>
              /\ Eq(dy(curve, res.value[1]), ZERO)
              /\ Eq(derivative(curve, res.value[1]).y, ZERO)
              /\ MonotonicY(split(curve, res.value[1])[1])
              /\ MonotonicY(split(curve, res.value[1])[2])

\* the segment of the source's tests: y rises to its extremum at 4/7 and falls
C12_Witness ==
    /\ op = "find_local_y_extremum"
    /\ curve = Seg(Pt(ONE, ONE), Pt(OfInt(5), OfInt(5)), Pt(OfInt(10), TWO))
    /\ res.value = Some(Rat(4, 7))
    /\ ~MonotonicY(curve)
    /\ dy(curve, Rat(4, 7)) = ZERO
    /\ MonotonicY(split(curve, Rat(4, 7))[1])

\* a coordinate whose parabola has its vertex at from is monotonic: no extremum
C12_WitnessNone ==
    /\ op = "find_local_x_extremum"
    /\ curve = Seg(Pt(ONE, ZERO), Pt(ONE, ONE), Pt(TWO, TWO))
    /\ res.value = None
    /\ res.divisors # <<>>
    /\ MonotonicX(curve)

====
